---- MODULE Spec2Model ----
(***************************************************************************)
(* Model of the transactor ledger engine: fixed-point MoneyAmount          *)
(* (money.rs), the per-client Account state machine (account.rs), the      *)
(* Transaction constructors (transactions.rs) and the Processor that       *)
(* routes each transaction to its account (processor.rs).                  *)
(***************************************************************************)
EXTENDS Integers, Sequences, FiniteSets, TLC

\* ------------------------------------------------------------------------
\* Bounds
\* ------------------------------------------------------------------------

\* IntegerType::MAX, scaled down from i64 so that overflow is reachable.
MAX == 3

\* IntegerType::MIN of the same two's-complement width.
MIN == (-MAX) - 1

\* Client ids are 1..NumClients (ClientId = u16 in the source).
NumClients == 2

\* Transaction ids of deposits and withdrawals are 1..NumTx (TransactionId = u32).
NumTx == 1

\* Amounts carried by deposits and withdrawals are -1..MaxAmount.
MaxAmount == 2

\* Longest input the processor is given.
MaxLen == 4

Clients == 1..NumClients

TxIds == 1..NumTx

Amounts == (-1)..MaxAmount

\* ------------------------------------------------------------------------
\* money.rs
\* ------------------------------------------------------------------------

IntegerType == MIN..MAX

Some(v) == [tag |-> "Some", val |-> v]

None == [tag |-> "None"]

\* An arithmetic-overflow panic (builds with overflow checks on).
Panic == [tag |-> "Panic"]

checked_add(a, b) == IF a + b \in IntegerType THEN Some(a + b) ELSE None

checked_sub(a, b) == IF a - b \in IntegerType THEN Some(a - b) ELSE None

\* `-v` on IntegerType overflows only for MIN: with overflow checks (oc) the
\* build panics, without them the negation wraps to MIN.
neg_panics(v, oc) == oc /\ v = MIN

neg(v) == IF v = MIN THEN MIN ELSE -v

try_change(self, value, oc) ==
    IF value > 0
    THEN checked_add(self, value)
    ELSE IF neg_panics(value, oc)
         THEN Panic
         ELSE checked_sub(self, neg(value))

\* The expression `x.try_change(-amount)`: Neg for MoneyAmount, then try_change.
try_change_neg(self, amount, oc) ==
    IF neg_panics(amount, oc)
    THEN Panic
    ELSE try_change(self, neg(amount), oc)

\* ------------------------------------------------------------------------
\* account.rs
\* ------------------------------------------------------------------------

AuditRecord ==
    {"Processed", "CanNotDepositNegative", "CanNotWithdrawNegative",
     "NotEnoughMoneyToWithdraw", "DisputedDepositNotFound",
     "NotEnoughMoneyToRelease", "NotEnoughMoneyToChargeBack",
     "MoneyOverflow", "MoneyUnderflow", "DisputeNotFound", "AccountLocked"}

EmptyMap == [k \in {} |-> 0]

\* HashMap::insert (overwrites an existing key)
insert(m, k, v) == [x \in DOMAIN m \cup {k} |-> IF x = k THEN v ELSE m[x]]

\* HashMap::remove
remove(m, k) == [x \in DOMAIN m \ {k} |-> m[x]]

\* Account::default()
DefaultAccount ==
    [available |-> 0, held |-> 0, locked |-> FALSE,
     deposited_amounts |-> EmptyMap, disputed_amounts |-> EmptyMap]

\* What an Account method leaves behind: the account and the returned record.
\* audit = "Panic" stands for a call that unwound instead of returning.
Outcome(account, audit) == [account |-> account, audit |-> audit]

Account_total(self, oc) == try_change(self.available, self.held, oc)

\* Mutant: the deposit is recorded before the amount is validated.
Account_deposit_RecordsFirst(self, tx_id, amount, oc) ==
    LET recorded == [self EXCEPT !.deposited_amounts = insert(@, tx_id, amount)] IN
    IF amount < 0
    THEN Outcome(recorded, "CanNotDepositNegative")
    ELSE LET new_available == try_change(self.available, amount, oc) IN
         IF new_available.tag = "Panic" THEN Outcome(recorded, "Panic")
         ELSE IF new_available.tag = "None" THEN Outcome(recorded, "MoneyOverflow")
         ELSE Outcome([recorded EXCEPT !.available = new_available.val], "Processed")

\* Mutant: the sign check on the amount is missing.
Account_deposit_NoSignCheck(self, tx_id, amount, oc) ==
    LET new_available == try_change(self.available, amount, oc) IN
    IF new_available.tag = "Panic" THEN Outcome(self, "Panic")
    ELSE IF new_available.tag = "None" THEN Outcome(self, "MoneyOverflow")
    ELSE Outcome([self EXCEPT
                    !.available = new_available.val,
                    !.deposited_amounts = insert(@, tx_id, amount)],
                 "Processed")

\* Mutant: a locked account refuses deposits as well.
Account_deposit_RejectsWhenLocked(self, tx_id, amount, oc) ==
    IF amount < 0
    THEN Outcome(self, "CanNotDepositNegative")
    ELSE IF self.locked
    THEN Outcome(self, "AccountLocked")
    ELSE LET new_available == try_change(self.available, amount, oc) IN
         IF new_available.tag = "Panic" THEN Outcome(self, "Panic")
         ELSE IF new_available.tag = "None" THEN Outcome(self, "MoneyOverflow")
         ELSE Outcome([self EXCEPT
                         !.available = new_available.val,
                         !.deposited_amounts = insert(@, tx_id, amount)],
                      "Processed")

Account_deposit(self, tx_id, amount, oc) ==
    IF amount < 0
    THEN Outcome(self, "CanNotDepositNegative")
    ELSE LET new_available == try_change(self.available, amount, oc) IN
         IF new_available.tag = "Panic" THEN Outcome(self, "Panic")
         ELSE IF new_available.tag = "None" THEN Outcome(self, "MoneyOverflow")
         ELSE Outcome([self EXCEPT
                         !.available = new_available.val,
                         !.deposited_amounts = insert(@, tx_id, amount)],
                      "Processed")

\* Mutant: the funds check comes before the lock check.
Account_withdraw_FundsBeforeLock(self, amount, oc) ==
    IF amount < 0
    THEN Outcome(self, "CanNotWithdrawNegative")
    ELSE IF self.available < amount
    THEN Outcome(self, "NotEnoughMoneyToWithdraw")
    ELSE IF self.locked
    THEN Outcome(self, "AccountLocked")
    ELSE LET new_available == try_change_neg(self.available, amount, oc) IN
         IF new_available.tag = "Panic" THEN Outcome(self, "Panic")
         ELSE IF new_available.tag = "None" THEN Outcome(self, "MoneyUnderflow")
         ELSE Outcome([self EXCEPT !.available = new_available.val], "Processed")

\* Mutant: the check of the available funds is missing.
Account_withdraw_NoFundsCheck(self, amount, oc) ==
    IF amount < 0
    THEN Outcome(self, "CanNotWithdrawNegative")
    ELSE IF self.locked
    THEN Outcome(self, "AccountLocked")
    ELSE LET new_available == try_change_neg(self.available, amount, oc) IN
         IF new_available.tag = "Panic" THEN Outcome(self, "Panic")
         ELSE IF new_available.tag = "None" THEN Outcome(self, "MoneyUnderflow")
         ELSE Outcome([self EXCEPT !.available = new_available.val], "Processed")

Account_withdraw(self, amount, oc) ==
    IF amount < 0
    THEN Outcome(self, "CanNotWithdrawNegative")
    ELSE IF self.locked
    THEN Outcome(self, "AccountLocked")
    ELSE IF self.available < amount
    THEN Outcome(self, "NotEnoughMoneyToWithdraw")
    ELSE LET new_available == try_change_neg(self.available, amount, oc) IN
         IF new_available.tag = "Panic" THEN Outcome(self, "Panic")
         ELSE IF new_available.tag = "None" THEN Outcome(self, "MoneyUnderflow")
         ELSE Outcome([self EXCEPT !.available = new_available.val], "Processed")

\* Mutant: the two adjustments have their signs swapped.
Account_dispute_SignsSwapped(self, disputed_tx_id, oc) ==
    IF disputed_tx_id \notin DOMAIN self.deposited_amounts
    THEN Outcome(self, "DisputedDepositNotFound")
    ELSE LET disputed_amount == self.deposited_amounts[disputed_tx_id]
             new_held == try_change_neg(self.held, disputed_amount, oc)
             new_available == try_change(self.available, disputed_amount, oc)
         IN
         IF new_held.tag = "Panic" THEN Outcome(self, "Panic")
         ELSE IF new_held.tag = "None" THEN Outcome(self, "MoneyOverflow")
         ELSE IF new_available.tag = "Panic" THEN Outcome(self, "Panic")
         ELSE IF new_available.tag = "None" THEN Outcome(self, "MoneyUnderflow")
         ELSE Outcome([self EXCEPT
                         !.held = new_held.val,
                         !.available = new_available.val,
                         !.disputed_amounts = insert(@, disputed_tx_id, disputed_amount),
                         !.deposited_amounts = remove(@, disputed_tx_id)],
                      "Processed")

\* Mutant: a dispute is refused when the available funds do not cover it.
Account_dispute_ChecksFunds(self, disputed_tx_id, oc) ==
    IF disputed_tx_id \notin DOMAIN self.deposited_amounts
    THEN Outcome(self, "DisputedDepositNotFound")
    ELSE LET disputed_amount == self.deposited_amounts[disputed_tx_id]
             new_held == try_change(self.held, disputed_amount, oc)
             new_available == try_change_neg(self.available, disputed_amount, oc)
         IN
         IF self.available < disputed_amount THEN Outcome(self, "MoneyUnderflow")
         ELSE IF new_held.tag = "Panic" THEN Outcome(self, "Panic")
         ELSE IF new_held.tag = "None" THEN Outcome(self, "MoneyOverflow")
         ELSE IF new_available.tag = "Panic" THEN Outcome(self, "Panic")
         ELSE IF new_available.tag = "None" THEN Outcome(self, "MoneyUnderflow")
         ELSE Outcome([self EXCEPT
                         !.held = new_held.val,
                         !.available = new_available.val,
                         !.disputed_amounts = insert(@, disputed_tx_id, disputed_amount),
                         !.deposited_amounts = remove(@, disputed_tx_id)],
                      "Processed")

Account_dispute(self, disputed_tx_id, oc) ==
    IF disputed_tx_id \notin DOMAIN self.deposited_amounts
    THEN Outcome(self, "DisputedDepositNotFound")
    ELSE LET disputed_amount == self.deposited_amounts[disputed_tx_id]
             new_held == try_change(self.held, disputed_amount, oc)
             new_available == try_change_neg(self.available, disputed_amount, oc)
         IN
         IF new_held.tag = "Panic" THEN Outcome(self, "Panic")
         ELSE IF new_held.tag = "None" THEN Outcome(self, "MoneyOverflow")
         ELSE IF new_available.tag = "Panic" THEN Outcome(self, "Panic")
         ELSE IF new_available.tag = "None" THEN Outcome(self, "MoneyUnderflow")
         ELSE Outcome([self EXCEPT
                         !.held = new_held.val,
                         !.available = new_available.val,
                         !.disputed_amounts = insert(@, disputed_tx_id, disputed_amount),
                         !.deposited_amounts = remove(@, disputed_tx_id)],
                      "Processed")

\* Mutant: the resolved deposit is not put back into deposited_amounts.
Account_resolve_NoReinsert(self, disputed_tx_id, oc) ==
    IF disputed_tx_id \notin DOMAIN self.disputed_amounts
    THEN Outcome(self, "DisputeNotFound")
    ELSE LET disputed_amount == self.disputed_amounts[disputed_tx_id] IN
         IF self.held < disputed_amount
         THEN Outcome(self, "NotEnoughMoneyToRelease")
         ELSE LET new_available == try_change(self.available, disputed_amount, oc)
                  new_held == try_change_neg(self.held, disputed_amount, oc)
              IN
              IF new_available.tag = "Panic" THEN Outcome(self, "Panic")
              ELSE IF new_available.tag = "None" THEN Outcome(self, "MoneyOverflow")
              ELSE IF new_held.tag = "Panic" THEN Outcome(self, "Panic")
              ELSE IF new_held.tag = "None" THEN Outcome(self, "MoneyUnderflow")
              ELSE Outcome([self EXCEPT
                              !.available = new_available.val,
                              !.held = new_held.val,
                              !.disputed_amounts = remove(@, disputed_tx_id)],
                           "Processed")

\* Mutant: the resolved amount is credited to available but stays in held.
Account_resolve_NoHeldRelease(self, disputed_tx_id, oc) ==
    IF disputed_tx_id \notin DOMAIN self.disputed_amounts
    THEN Outcome(self, "DisputeNotFound")
    ELSE LET disputed_amount == self.disputed_amounts[disputed_tx_id] IN
         IF self.held < disputed_amount
         THEN Outcome(self, "NotEnoughMoneyToRelease")
         ELSE LET new_available == try_change(self.available, disputed_amount, oc) IN
              IF new_available.tag = "Panic" THEN Outcome(self, "Panic")
              ELSE IF new_available.tag = "None" THEN Outcome(self, "MoneyOverflow")
              ELSE Outcome([self EXCEPT
                              !.available = new_available.val,
                              !.disputed_amounts = remove(@, disputed_tx_id),
                              !.deposited_amounts = insert(@, disputed_tx_id, disputed_amount)],
                           "Processed")

\* Mutant: the resolved dispute stays in disputed_amounts.
Account_resolve_KeepsDispute(self, disputed_tx_id, oc) ==
    IF disputed_tx_id \notin DOMAIN self.disputed_amounts
    THEN Outcome(self, "DisputeNotFound")
    ELSE LET disputed_amount == self.disputed_amounts[disputed_tx_id] IN
         IF self.held < disputed_amount
         THEN Outcome(self, "NotEnoughMoneyToRelease")
         ELSE LET new_available == try_change(self.available, disputed_amount, oc)
                  new_held == try_change_neg(self.held, disputed_amount, oc)
              IN
              IF new_available.tag = "Panic" THEN Outcome(self, "Panic")
              ELSE IF new_available.tag = "None" THEN Outcome(self, "MoneyOverflow")
              ELSE IF new_held.tag = "Panic" THEN Outcome(self, "Panic")
              ELSE IF new_held.tag = "None" THEN Outcome(self, "MoneyUnderflow")
              ELSE Outcome([self EXCEPT
                              !.available = new_available.val,
                              !.held = new_held.val,
                              !.deposited_amounts = insert(@, disputed_tx_id, disputed_amount)],
                           "Processed")

Account_resolve(self, disputed_tx_id, oc) ==
    IF disputed_tx_id \notin DOMAIN self.disputed_amounts
    THEN Outcome(self, "DisputeNotFound")
    ELSE LET disputed_amount == self.disputed_amounts[disputed_tx_id] IN
         IF self.held < disputed_amount
         THEN Outcome(self, "NotEnoughMoneyToRelease")
         ELSE LET new_available == try_change(self.available, disputed_amount, oc)
                  new_held == try_change_neg(self.held, disputed_amount, oc)
              IN
              IF new_available.tag = "Panic" THEN Outcome(self, "Panic")
              ELSE IF new_available.tag = "None" THEN Outcome(self, "MoneyOverflow")
              ELSE IF new_held.tag = "Panic" THEN Outcome(self, "Panic")
              ELSE IF new_held.tag = "None" THEN Outcome(self, "MoneyUnderflow")
              ELSE Outcome([self EXCEPT
                              !.available = new_available.val,
                              !.held = new_held.val,
                              !.disputed_amounts = remove(@, disputed_tx_id),
                              !.deposited_amounts = insert(@, disputed_tx_id, disputed_amount)],
                           "Processed")

\* Mutant: the account is not locked.
Account_chargeback_NoLock(self, disputed_tx_id, oc) ==
    IF disputed_tx_id \notin DOMAIN self.disputed_amounts
    THEN Outcome(self, "DisputeNotFound")
    ELSE LET disputed_amount == self.disputed_amounts[disputed_tx_id] IN
         IF self.held < disputed_amount
         THEN Outcome(self, "NotEnoughMoneyToChargeBack")
         ELSE LET new_held == try_change_neg(self.held, disputed_amount, oc) IN
              IF new_held.tag = "Panic" THEN Outcome(self, "Panic")
              ELSE IF new_held.tag = "None" THEN Outcome(self, "MoneyUnderflow")
              ELSE Outcome([self EXCEPT
                              !.held = new_held.val,
                              !.disputed_amounts = remove(@, disputed_tx_id)],
                           "Processed")

Account_chargeback(self, disputed_tx_id, oc) ==
    IF disputed_tx_id \notin DOMAIN self.disputed_amounts
    THEN Outcome(self, "DisputeNotFound")
    ELSE LET disputed_amount == self.disputed_amounts[disputed_tx_id] IN
         IF self.held < disputed_amount
         THEN Outcome(self, "NotEnoughMoneyToChargeBack")
         ELSE LET new_held == try_change_neg(self.held, disputed_amount, oc) IN
              IF new_held.tag = "Panic" THEN Outcome(self, "Panic")
              ELSE IF new_held.tag = "None" THEN Outcome(self, "MoneyUnderflow")
              ELSE Outcome([self EXCEPT
                              !.held = new_held.val,
                              !.disputed_amounts = remove(@, disputed_tx_id),
                              !.locked = TRUE],
                           "Processed")

\* ------------------------------------------------------------------------
\* transactions.rs
\* ------------------------------------------------------------------------

deposit(client_id, tx_id, amount) ==
    [client_id |-> client_id, id |-> tx_id,
     detail |-> [kind |-> "Deposit", amount |-> amount]]

withdraw(client_id, tx_id, amount) ==
    [client_id |-> client_id, id |-> tx_id,
     detail |-> [kind |-> "Withdrawal", amount |-> amount]]

dispute(client_id, disputed_tx_id) ==
    [client_id |-> client_id, id |-> 0,
     detail |-> [kind |-> "Dispute", tx_id |-> disputed_tx_id]]

resolve(client_id, disputed_tx_id) ==
    [client_id |-> client_id, id |-> 0,
     detail |-> [kind |-> "Resolve", tx_id |-> disputed_tx_id]]

chargeback(client_id, disputed_tx_id) ==
    [client_id |-> client_id, id |-> 0,
     detail |-> [kind |-> "ChargeBack", tx_id |-> disputed_tx_id]]

\* The transactions the reader can hand to the processor.
Transaction ==
    {deposit(c, t, a) : c \in Clients, t \in TxIds, a \in Amounts}
    \cup {withdraw(c, t, a) : c \in Clients, t \in TxIds, a \in Amounts}
    \cup {dispute(c, t) : c \in Clients, t \in TxIds}
    \cup {resolve(c, t) : c \in Clients, t \in TxIds}
    \cup {chargeback(c, t) : c \in Clients, t \in TxIds}

\* ------------------------------------------------------------------------
\* processor.rs
\* ------------------------------------------------------------------------

\* accounts.entry(client_id).or_insert_with(Default::default)
entry_or_default(accts, client_id) ==
    IF client_id \in DOMAIN accts THEN accts[client_id] ELSE DefaultAccount

\* Mutant: the account is looked up under the transaction's id instead of
\* its client id.
process_transaction_KeyedByTxId(accts, tx, oc) ==
    LET account == entry_or_default(accts, tx.id)
        r == CASE tx.detail.kind = "Deposit" ->
                    Account_deposit(account, tx.id, tx.detail.amount, oc)
               [] tx.detail.kind = "Withdrawal" ->
                    Account_withdraw(account, tx.detail.amount, oc)
               [] tx.detail.kind = "Dispute" ->
                    Account_dispute(account, tx.detail.tx_id, oc)
               [] tx.detail.kind = "Resolve" ->
                    Account_resolve(account, tx.detail.tx_id, oc)
               [] tx.detail.kind = "ChargeBack" ->
                    Account_chargeback(account, tx.detail.tx_id, oc)
    IN  [accounts |-> insert(accts, tx.id, r.account), audit |-> r.audit]

\* Mutant: a Processed withdrawal is recorded like a deposit, under its id.
process_transaction_RecordsWithdrawals(accts, tx, oc) ==
    LET account == entry_or_default(accts, tx.client_id)
        w == Account_withdraw(account, tx.detail.amount, oc)
        r == CASE tx.detail.kind = "Deposit" ->
                    Account_deposit(account, tx.id, tx.detail.amount, oc)
               [] tx.detail.kind = "Withdrawal" ->
                    IF w.audit = "Processed"
                    THEN Outcome([w.account EXCEPT
                                    !.deposited_amounts =
                                        insert(@, tx.id, tx.detail.amount)],
                                 w.audit)
                    ELSE w
               [] tx.detail.kind = "Dispute" ->
                    Account_dispute(account, tx.detail.tx_id, oc)
               [] tx.detail.kind = "Resolve" ->
                    Account_resolve(account, tx.detail.tx_id, oc)
               [] tx.detail.kind = "ChargeBack" ->
                    Account_chargeback(account, tx.detail.tx_id, oc)
    IN  [accounts |-> insert(accts, tx.client_id, r.account), audit |-> r.audit]

\* Mutant: a Processed chargeback locks every account of the processor.
process_transaction_ChargebackLocksAll(accts, tx, oc) ==
    LET account == entry_or_default(accts, tx.client_id)
        r == CASE tx.detail.kind = "Deposit" ->
                    Account_deposit(account, tx.id, tx.detail.amount, oc)
               [] tx.detail.kind = "Withdrawal" ->
                    Account_withdraw(account, tx.detail.amount, oc)
               [] tx.detail.kind = "Dispute" ->
                    Account_dispute(account, tx.detail.tx_id, oc)
               [] tx.detail.kind = "Resolve" ->
                    Account_resolve(account, tx.detail.tx_id, oc)
               [] tx.detail.kind = "ChargeBack" ->
                    Account_chargeback(account, tx.detail.tx_id, oc)
        updated == insert(accts, tx.client_id, r.account)
    IN  [accounts |-> IF tx.detail.kind = "ChargeBack" /\ r.audit = "Processed"
                      THEN [c \in DOMAIN updated |-> [updated[c] EXCEPT !.locked = TRUE]]
                      ELSE updated,
         audit |-> r.audit]

process_transaction(accts, tx, oc) ==
    LET account == entry_or_default(accts, tx.client_id)
        r == CASE tx.detail.kind = "Deposit" ->
                    Account_deposit(account, tx.id, tx.detail.amount, oc)
               [] tx.detail.kind = "Withdrawal" ->
                    Account_withdraw(account, tx.detail.amount, oc)
               [] tx.detail.kind = "Dispute" ->
                    Account_dispute(account, tx.detail.tx_id, oc)
               [] tx.detail.kind = "Resolve" ->
                    Account_resolve(account, tx.detail.tx_id, oc)
               [] tx.detail.kind = "ChargeBack" ->
                    Account_chargeback(account, tx.detail.tx_id, oc)
    IN  [accounts |-> insert(accts, tx.client_id, r.account), audit |-> r.audit]

\* processor.process(transactions).collect() on a processor holding accts:
\* the accounts it is left with and the records collected, in order.
RECURSIVE process(_, _, _)
process(accts, txs, oc) ==
    IF txs = <<>>
    THEN [accounts |-> accts, audit |-> <<>>]
    ELSE LET r == process_transaction(accts, Head(txs), oc)
             rest == process(r.accounts, Tail(txs), oc)
         IN  [accounts |-> rest.accounts, audit |-> <<r.audit>> \o rest.audit]

VARIABLES
    accounts,      \* Processor.accounts: client id -> Account, for clients seen
    transactions,  \* the transactions the iterator has pulled from its input
    audit,         \* the AuditRecords the iterator has yielded
    snapshots,     \* history: snapshots[i] is `accounts` just before transactions[i]
    done,          \* the input is exhausted: the iterator returned None
    panicked,      \* a call unwound on arithmetic overflow; the run is over
    call           \* a direct call of MoneyAmount::try_change and what it gave

vars == <<accounts, transactions, audit, snapshots, done, panicked, call>>

\* No direct call of try_change is being looked at.
NoCall == [tag |-> "NoCall"]

\* Processor::default(): no account yet
Init_accounts == [c \in {} |-> DefaultAccount]

\* A fresh processor whose iterator has not been polled
Init ==
    /\ accounts = Init_accounts
    /\ transactions = <<>>
    /\ audit = <<>>
    /\ snapshots = <<>>
    /\ done = FALSE
    /\ panicked = FALSE
    /\ call = NoCall

\* Mutant: only Processed records are yielded.
ProcessNext_DropsRejected ==
    /\ ~done
    /\ ~panicked
    /\ Len(transactions) < MaxLen
    /\ \E tx \in Transaction, oc \in BOOLEAN :
         LET r == process_transaction(accounts, tx, oc) IN
         /\ accounts' = r.accounts
         /\ transactions' = Append(transactions, tx)
         /\ snapshots' = Append(snapshots, accounts)
         /\ IF r.audit = "Processed"
            THEN panicked' = FALSE /\ audit' = Append(audit, r.audit)
            ELSE panicked' = (r.audit = "Panic") /\ audit' = audit
    /\ UNCHANGED <<done, call>>

\* One next() on the iterator returned by Processor::process while the input
\* has another transaction: it is pulled, applied and its record yielded.
ProcessNext ==
    /\ ~done
    /\ ~panicked
    /\ Len(transactions) < MaxLen
    /\ \E tx \in Transaction, oc \in BOOLEAN :
         LET r == process_transaction(accounts, tx, oc) IN
         /\ accounts' = r.accounts
         /\ transactions' = Append(transactions, tx)
         /\ snapshots' = Append(snapshots, accounts)
         /\ IF r.audit = "Panic"
            THEN panicked' = TRUE /\ audit' = audit
            ELSE panicked' = FALSE /\ audit' = Append(audit, r.audit)
    /\ UNCHANGED <<done, call>>

\* next() on an exhausted input: the iterator returns None.
Exhausted ==
    /\ ~done
    /\ ~panicked
    /\ done' = TRUE
    /\ UNCHANGED <<accounts, transactions, audit, snapshots, panicked, call>>

Next == ProcessNext \/ Exhausted

Spec == Init /\ [][Next]_vars

\* ------------------------------------------------------------------------
\* MoneyAmount::try_change called on its own, on every self and value of
\* IntegerType and under both settings of the overflow checks.
\* ------------------------------------------------------------------------

Pending == [tag |-> "Pending"]

InitTryChange ==
    /\ accounts = Init_accounts
    /\ transactions = <<>>
    /\ audit = <<>>
    /\ snapshots = <<>>
    /\ done = FALSE
    /\ panicked = FALSE
    /\ call \in [tag : {"Call"}, self : IntegerType, value : IntegerType,
                 oc : BOOLEAN, result : {Pending}]

\* The call returns (or unwinds).
ApplyTryChange ==
    /\ call.tag = "Call"
    /\ call.result = Pending
    /\ call' = [call EXCEPT !.result = try_change(call.self, call.value, call.oc)]
    /\ UNCHANGED <<accounts, transactions, audit, snapshots, done, panicked>>

NextTryChange == ApplyTryChange

SpecTryChange == InitTryChange /\ [][NextTryChange]_vars

\* ------------------------------------------------------------------------
\* History helpers
\* ------------------------------------------------------------------------

Steps == 1..Len(transactions)

\* The account map just before and just after the i-th transaction.
Before(i) == snapshots[i]

After(i) == IF i = Len(transactions) THEN accounts ELSE snapshots[i + 1]

TypeOK ==
    /\ DOMAIN accounts \subseteq Clients
    /\ \A c \in DOMAIN accounts :
         /\ accounts[c].available \in IntegerType
         /\ accounts[c].held \in IntegerType
         /\ accounts[c].locked \in BOOLEAN
         /\ DOMAIN accounts[c].deposited_amounts \subseteq TxIds
         /\ DOMAIN accounts[c].disputed_amounts \subseteq TxIds
    /\ Len(audit) <= Len(transactions)
    /\ \A i \in 1..Len(audit) : audit[i] \in AuditRecord

IsTx(i, kind, c) ==
    transactions[i].detail.kind = kind /\ transactions[i].client_id = c

\* The i-th transaction was given a record, and the record is Processed.
ProcessedAt(i) == i <= Len(audit) /\ audit[i] = "Processed"

\* ------------------------------------------------------------------------
\* C1
\* ------------------------------------------------------------------------

\* C1: every transaction whose audit record is not Processed leaves its
\* client's account (available, held, locked, both mappings) as it was before
\* the transaction, a client seen for the first time being left with the
\* default account; the run does not stop, and the transaction that follows
\* is processed against that unchanged state.
C1_FailedTransactionLeavesAccountUnchanged ==
    /\ ~panicked
    /\ \A i \in 1..Len(audit) :
         audit[i] # "Processed" =>
           LET c == transactions[i].client_id IN
           /\ c \in DOMAIN After(i)
           /\ After(i)[c] = entry_or_default(Before(i), c)
           /\ i < Len(transactions) =>
                /\ i + 1 <= Len(audit)
                /\ \E oc \in BOOLEAN :
                     audit[i + 1] =
                       process_transaction(After(i), transactions[i + 1], oc).audit

\* A failed transaction on an account with funds, and a failed transaction of
\* a client seen for the first time, each followed by a Processed one.
C1_Witness ==
    /\ \E i \in 1..Len(audit) :
         /\ audit[i] # "Processed"
         /\ transactions[i].client_id \in DOMAIN Before(i)
         /\ Before(i)[transactions[i].client_id] # DefaultAccount
         /\ ProcessedAt(i + 1)
    /\ \E i \in 1..Len(audit) :
         /\ audit[i] # "Processed"
         /\ transactions[i].client_id \notin DOMAIN Before(i)
         /\ ProcessedAt(i + 1)

\* ------------------------------------------------------------------------
\* C2
\* ------------------------------------------------------------------------

\* C2: in every reachable state no transaction id is a key of both
\* deposited_amounts and disputed_amounts of the same account.
C2_NoTxInBothMappings ==
    \A c \in DOMAIN accounts :
        DOMAIN accounts[c].deposited_amounts
          \cap DOMAIN accounts[c].disputed_amounts = {}

\* ------------------------------------------------------------------------
\* C3
\* ------------------------------------------------------------------------

\* C3: in every reachable state of every account, held >= 0.
C3_HeldNonNegative ==
    \A c \in DOMAIN accounts : accounts[c].held >= 0

\* Held funds were raised by a dispute and lowered again by a resolve or a
\* chargeback.
C3_Witness ==
    \E i \in Steps, c \in Clients :
        /\ ProcessedAt(i)
        /\ IsTx(i, "Resolve", c) \/ IsTx(i, "ChargeBack", c)
        /\ Before(i)[c].held > 0
        /\ After(i)[c].held < Before(i)[c].held

\* ------------------------------------------------------------------------
\* C4
\* ------------------------------------------------------------------------

\* locked of client c in an account map (an account not yet created is unlocked)
LockedIn(accts, c) == entry_or_default(accts, c).locked

\* C4: after any number of transactions an account is locked exactly when a
\* chargeback on it has been Processed among them: locked is false up to the
\* first Processed chargeback and true in every state after it.
C4_LockedExactlyAfterChargeback ==
    \A c \in Clients :
        /\ ~LockedIn(Init_accounts, c)
        /\ \A i \in Steps :
             LockedIn(After(i), c) <=>
               \E j \in 1..i : IsTx(j, "ChargeBack", c) /\ ProcessedAt(j)

\* A chargeback locked the account and transactions of other kinds, Processed
\* or not, followed on the same account.
C4_Witness ==
    \E j \in Steps, c \in Clients :
        /\ IsTx(j, "ChargeBack", c) /\ ProcessedAt(j)
        /\ ~LockedIn(Before(j), c)
        /\ j < Len(transactions)
        /\ IsTx(Len(transactions), "Deposit", c) /\ ProcessedAt(Len(transactions))
        /\ accounts[c].locked

\* ------------------------------------------------------------------------
\* C5
\* ------------------------------------------------------------------------

\* C5 as stated: after a Processed chargeback every later withdrawal on the
\* account, whatever its amount, yields AccountLocked and changes nothing.
C5_Original ==
    \A j \in Steps, i \in 1..Len(audit) :
        LET c == transactions[j].client_id IN
        (j < i /\ IsTx(j, "ChargeBack", c) /\ ProcessedAt(j)
               /\ IsTx(i, "Withdrawal", c))
          => /\ audit[i] = "AccountLocked"
             /\ After(i)[c] = Before(i)[c]

\* C5 (amended): after a Processed chargeback every later withdrawal of a
\* non-negative amount on the account yields AccountLocked, whatever the
\* available funds; a withdrawal of a negative amount yields
\* CanNotWithdrawNegative; either way the account is unchanged.
C5_WithdrawalAfterChargebackRejected ==
    \A j \in Steps, i \in 1..Len(audit) :
        LET c == transactions[j].client_id IN
        (j < i /\ IsTx(j, "ChargeBack", c) /\ ProcessedAt(j)
               /\ IsTx(i, "Withdrawal", c))
          => /\ audit[i] = IF transactions[i].detail.amount >= 0
                           THEN "AccountLocked"
                           ELSE "CanNotWithdrawNegative"
             /\ After(i)[c] = Before(i)[c]

\* After a chargeback: a withdrawal the funds would cover, and one they would not.
C5_Witness ==
    \E j \in Steps, i \in 1..Len(audit) :
        LET c == transactions[j].client_id IN
        /\ j < i /\ IsTx(j, "ChargeBack", c) /\ ProcessedAt(j)
        /\ IsTx(i, "Withdrawal", c)
        /\ transactions[i].detail.amount >= 0
        /\ Before(i)[c].available >= transactions[i].detail.amount
        /\ audit[i] = "AccountLocked"

\* ------------------------------------------------------------------------
\* C6
\* ------------------------------------------------------------------------

\* C6: the iterator yields one record per transaction pulled, in input order:
\* once k records are out exactly the first k transactions have been applied,
\* the i-th record and the account map after it are the result of applying
\* the i-th transaction to the map left by transactions 1..i-1 (the empty map
\* for i = 1), and a fully consumed input of n transactions gave n records.
C6_OneOutcomePerTransactionInOrder ==
    /\ Len(audit) = Len(transactions)
    /\ Len(snapshots) = Len(transactions)
    /\ Len(transactions) > 0 => Before(1) = Init_accounts
    /\ Len(transactions) = 0 => accounts = Init_accounts
    /\ \A i \in Steps :
         \E oc \in BOOLEAN :
            LET r == process_transaction(Before(i), transactions[i], oc) IN
            /\ audit[i] = r.audit
            /\ After(i) = r.accounts

\* A fully consumed input with Processed and rejected transactions.
C6_Witness ==
    /\ done
    /\ Len(audit) >= 3
    /\ \E i, j \in 1..Len(audit) :
         i < j /\ audit[i] # "Processed" /\ audit[j] = "Processed"

\* ------------------------------------------------------------------------
\* C7
\* ------------------------------------------------------------------------

\* C7: a transaction addressed to client c neither creates nor changes the
\* account of any other client, whatever its kind and outcome.
C7_NoCrossAccountEffect ==
    \A i \in Steps :
        \A c \in Clients \ {transactions[i].client_id} :
            /\ c \in DOMAIN After(i) <=> c \in DOMAIN Before(i)
            /\ c \in DOMAIN Before(i) => After(i)[c] = Before(i)[c]

\* A dispute, resolve or chargeback by one client naming a transaction id
\* that another client deposited.
C7_Witness ==
    \E i \in Steps, c, other \in Clients :
        /\ c # other
        /\ transactions[i].client_id = c
        /\ transactions[i].detail.kind \in {"Dispute", "Resolve", "ChargeBack"}
        /\ other \in DOMAIN Before(i)
        /\ transactions[i].detail.tx_id \in DOMAIN Before(i)[other].deposited_amounts
        /\ Before(i)[other].available > 0

\* ------------------------------------------------------------------------
\* C8
\* ------------------------------------------------------------------------

\* C8: a deposit of a negative amount always yields CanNotDepositNegative and
\* changes neither available nor deposited_amounts.
C8_NegativeDepositRejected ==
    \A i \in Steps :
        LET c == transactions[i].client_id IN
        (IsTx(i, "Deposit", c) /\ transactions[i].detail.amount < 0)
          => /\ i <= Len(audit)
             /\ audit[i] = "CanNotDepositNegative"
             /\ After(i)[c].available = entry_or_default(Before(i), c).available
             /\ After(i)[c].deposited_amounts =
                  entry_or_default(Before(i), c).deposited_amounts

\* A negative deposit that reuses a recorded transaction id, on an account
\* holding funds.
C8_Witness ==
    \E i \in 1..Len(audit) :
        LET c == transactions[i].client_id IN
        /\ IsTx(i, "Deposit", c) /\ transactions[i].detail.amount < 0
        /\ c \in DOMAIN Before(i)
        /\ transactions[i].id \in DOMAIN Before(i)[c].deposited_amounts
        /\ Before(i)[c].available > 0

\* ------------------------------------------------------------------------
\* C9
\* ------------------------------------------------------------------------

\* C9: once a dispute of tx_id on an account has been Processed, every later
\* dispute of the same tx_id on that account yields DisputedDepositNotFound
\* unless a resolve of tx_id has been Processed in between.
C9_DisputedAtMostOnce ==
    \A j \in Steps, i \in 1..Len(audit) :
        LET c == transactions[j].client_id IN
        (/\ j < i
         /\ IsTx(j, "Dispute", c) /\ ProcessedAt(j)
         /\ IsTx(i, "Dispute", c)
         /\ transactions[i].detail.tx_id = transactions[j].detail.tx_id
         /\ ~\E k \in (j + 1)..(i - 1) :
               /\ IsTx(k, "Resolve", c) /\ ProcessedAt(k)
               /\ transactions[k].detail.tx_id = transactions[j].detail.tx_id)
          => audit[i] = "DisputedDepositNotFound"

\* ------------------------------------------------------------------------
\* C10
\* ------------------------------------------------------------------------

\* dispute, resolve, dispute of tx_id applied in a row to one account
DisputeResolveDispute(account, tx_id, oc) ==
    LET r1 == Account_dispute(account, tx_id, oc)
        r2 == Account_resolve(r1.account, tx_id, oc)
        r3 == Account_dispute(r2.account, tx_id, oc)
    IN  <<r1, r2, r3>>

\* C10: from every reachable account state, a Processed dispute of tx_id
\* followed at once by a Processed resolve of tx_id restores available and
\* held, and a dispute of tx_id after that is Processed and gives the same
\* available and held as the first dispute.  Stated both of the steps the
\* processor took and of the three calls made on every reachable account.
C10_DisputeResolveRoundTrip ==
    /\ \A i \in Steps :
         LET c == transactions[i].client_id
             t == transactions[i].detail.tx_id
         IN
         (/\ IsTx(i, "Dispute", c) /\ ProcessedAt(i)
          /\ i + 1 <= Len(transactions)
          /\ IsTx(i + 1, "Resolve", c) /\ ProcessedAt(i + 1)
          /\ transactions[i + 1].detail.tx_id = t)
           => /\ After(i + 1)[c].available = Before(i)[c].available
              /\ After(i + 1)[c].held = Before(i)[c].held
              /\ (/\ i + 2 <= Len(transactions)
                  /\ IsTx(i + 2, "Dispute", c)
                  /\ transactions[i + 2].detail.tx_id = t)
                   => /\ ProcessedAt(i + 2)
                      /\ After(i + 2)[c].available = After(i)[c].available
                      /\ After(i + 2)[c].held = After(i)[c].held
    /\ \A c \in DOMAIN accounts, t \in TxIds, oc \in BOOLEAN :
         LET r == DisputeResolveDispute(accounts[c], t, oc) IN
         (r[1].audit = "Processed" /\ r[2].audit = "Processed")
           => /\ r[2].account.available = accounts[c].available
              /\ r[2].account.held = accounts[c].held
              /\ r[3].audit = "Processed"
              /\ r[3].account.available = r[1].account.available
              /\ r[3].account.held = r[1].account.held

\* The processor ran dispute, resolve, dispute of one deposit in a row.
C10_Witness ==
    \E i \in Steps, c \in Clients :
        /\ i + 2 <= Len(audit)
        /\ IsTx(i, "Dispute", c) /\ ProcessedAt(i)
        /\ IsTx(i + 1, "Resolve", c) /\ ProcessedAt(i + 1)
        /\ IsTx(i + 2, "Dispute", c) /\ ProcessedAt(i + 2)
        /\ transactions[i + 1].detail.tx_id = transactions[i].detail.tx_id
        /\ transactions[i + 2].detail.tx_id = transactions[i].detail.tx_id
        /\ Before(i)[c].available > 0
        /\ After(i)[c].held > 0

\* ------------------------------------------------------------------------
\* C11
\* ------------------------------------------------------------------------

\* C11: for every self and every delta of the representation, the minimum
\* value included, try_change returns self + delta when that sum is
\* representable and None exactly when it is not.
C11_TryChangeIsCheckedAddition ==
    (call.tag = "Call" /\ call.result # Pending)
      => call.result = IF call.self + call.value \in IntegerType
                       THEN Some(call.self + call.value)
                       ELSE None

\* ------------------------------------------------------------------------
\* C12
\* ------------------------------------------------------------------------

\* The account with its lock taken off.
Unlocked(account) == [account EXCEPT !.locked = FALSE]

\* Two accounts agree on available, held and both mappings.
SameFundsAndMappings(a, b) ==
    /\ a.available = b.available
    /\ a.held = b.held
    /\ a.deposited_amounts = b.deposited_amounts
    /\ a.disputed_amounts = b.disputed_amounts

\* C12: on a locked account deposit, dispute, resolve and chargeback return
\* the record and make the changes to available, held and both mappings that
\* they would on the same account with locked = false.  Stated of the steps
\* the processor took and of every such transaction on every reachable
\* locked account.
C12_LockBlocksWithdrawalsOnly ==
    /\ \A i \in 1..Len(audit) :
         LET c == transactions[i].client_id
             a == entry_or_default(Before(i), c)
         IN
         (a.locked /\ transactions[i].detail.kind # "Withdrawal")
           => \E oc \in BOOLEAN :
                LET r == process_transaction(insert(Before(i), c, Unlocked(a)),
                                             transactions[i], oc)
                IN  /\ audit[i] = r.audit
                    /\ SameFundsAndMappings(After(i)[c], r.accounts[c])
    /\ \A c \in DOMAIN accounts, tx \in Transaction, oc \in BOOLEAN :
         (/\ accounts[c].locked
          /\ tx.client_id = c
          /\ tx.detail.kind # "Withdrawal")
           => LET r1 == process_transaction(accounts, tx, oc)
                  r2 == process_transaction(
                            insert(accounts, c, Unlocked(accounts[c])), tx, oc)
              IN  /\ r1.audit = r2.audit
                  /\ SameFundsAndMappings(r1.accounts[c], r2.accounts[c])

\* A deposit was Processed on a locked account.
C12_Witness ==
    \E i \in Steps, c \in Clients :
        /\ IsTx(i, "Deposit", c) /\ ProcessedAt(i)
        /\ LockedIn(Before(i), c)
        /\ After(i)[c].available > Before(i)[c].available

\* ------------------------------------------------------------------------
\* C13
\* ------------------------------------------------------------------------

\* C13: a dispute naming a transaction id that no deposit on that account
\* carried (an id used there only by withdrawals, Processed or not, or never
\* seen) returns DisputedDepositNotFound and changes nothing; a withdrawal
\* adds no entry to deposited_amounts or disputed_amounts.
C13_WithdrawalsNotDisputable ==
    \A i \in 1..Len(audit) :
        LET c == transactions[i].client_id
            a == entry_or_default(Before(i), c)
        IN
        /\ (/\ IsTx(i, "Dispute", c)
            /\ ~\E j \in 1..(i - 1) :
                  /\ IsTx(j, "Deposit", c)
                  /\ transactions[j].id = transactions[i].detail.tx_id)
             => /\ audit[i] = "DisputedDepositNotFound"
                /\ After(i)[c] = a
        /\ IsTx(i, "Withdrawal", c)
             => /\ After(i)[c].deposited_amounts = a.deposited_amounts
                /\ After(i)[c].disputed_amounts = a.disputed_amounts

\* A dispute named the id of a Processed withdrawal that no deposit carried.
C13_Witness ==
    \E j, i \in 1..Len(audit), c \in Clients :
        /\ j < i
        /\ IsTx(j, "Withdrawal", c) /\ ProcessedAt(j)
        /\ IsTx(i, "Dispute", c)
        /\ transactions[i].detail.tx_id = transactions[j].id
        /\ ~\E k \in 1..(i - 1) :
              IsTx(k, "Deposit", c) /\ transactions[k].id = transactions[j].id
        /\ audit[i] = "DisputedDepositNotFound"

\* ------------------------------------------------------------------------
\* C14
\* ------------------------------------------------------------------------

\* What the claim says dispute(tx_id) does to an account that has tx_id in
\* deposited_amounts and room for both adjustments.
DisputeMovesFunds(before, after, record, tx_id) ==
    LET a == before.deposited_amounts[tx_id] IN
    (before.held + a \in IntegerType /\ before.available - a \in IntegerType)
      => /\ record = "Processed"
         /\ after.available = before.available - a
         /\ after.held = before.held + a

\* C14: a dispute of a recorded deposit whose two adjustments stay in range
\* is Processed whether or not available covers the amount, and moves the
\* amount from available (which may go negative) to held.  Stated of the
\* steps the processor took and of every dispute on every reachable account.
C14_DisputeNeedsNoFunds ==
    /\ \A i \in 1..Len(audit) :
         LET c == transactions[i].client_id
             a == entry_or_default(Before(i), c)
         IN
         (/\ IsTx(i, "Dispute", c)
          /\ transactions[i].detail.tx_id \in DOMAIN a.deposited_amounts)
           => DisputeMovesFunds(a, After(i)[c], audit[i],
                                transactions[i].detail.tx_id)
    /\ \A c \in DOMAIN accounts, oc \in BOOLEAN :
         \A t \in DOMAIN accounts[c].deposited_amounts :
            LET r == Account_dispute(accounts[c], t, oc) IN
            DisputeMovesFunds(accounts[c], r.account, r.audit, t)

\* A dispute was Processed on an account whose available funds did not cover
\* it, and left available negative.
C14_Witness ==
    \E i \in Steps, c \in Clients :
        /\ IsTx(i, "Dispute", c) /\ ProcessedAt(i)
        /\ Before(i)[c].available
             < Before(i)[c].deposited_amounts[transactions[i].detail.tx_id]
        /\ After(i)[c].available < 0
        /\ After(i)[c].held > 0

\* ------------------------------------------------------------------------
\* C15
\* ------------------------------------------------------------------------

\* What the claim says withdraw(amount) does.
WithdrawTakesExactly(before, after, record, amount) ==
    /\ record # "MoneyUnderflow"
    /\ (amount >= 0 /\ ~before.locked /\ before.available >= amount)
         => /\ record = "Processed"
            /\ after.available = before.available - amount
    /\ record = "Processed" => after.available >= 0

\* C15: withdraw never returns MoneyUnderflow: a withdrawal that passes the
\* checks amount >= 0, not locked and available >= amount is Processed and
\* lowers available by exactly amount, so a Processed withdrawal leaves
\* available >= 0.  Stated of the steps the processor took and of every
\* amount on every reachable account.
C15_WithdrawNeverUnderflows ==
    /\ \A i \in 1..Len(audit) :
         LET c == transactions[i].client_id IN
         IsTx(i, "Withdrawal", c)
           => WithdrawTakesExactly(entry_or_default(Before(i), c), After(i)[c],
                                   audit[i], transactions[i].detail.amount)
    /\ \A c \in DOMAIN accounts, amount \in IntegerType, oc \in BOOLEAN :
         LET r == Account_withdraw(accounts[c], amount, oc) IN
         WithdrawTakesExactly(accounts[c], r.account, r.audit, amount)

\* A withdrawal of part of the funds and a withdrawal of all of them were
\* Processed.
C15_Witness ==
    \E i, j \in Steps, c \in Clients :
        /\ i < j
        /\ IsTx(i, "Withdrawal", c) /\ ProcessedAt(i)
        /\ IsTx(j, "Withdrawal", c) /\ ProcessedAt(j)
        /\ transactions[i].detail.amount > 0
        /\ transactions[j].detail.amount > 0
        /\ After(i)[c].available > 0
        /\ After(j)[c].available = 0

\* ------------------------------------------------------------------------
\* C16
\* ------------------------------------------------------------------------

\* C16: a Processed chargeback of tx_id leaves available unchanged, lowers
\* held by exactly the disputed amount and leaves tx_id in neither mapping;
\* every later resolve or chargeback of tx_id on that account returns
\* DisputeNotFound unless a dispute of tx_id was Processed in between.
C16_ChargebackIsFinal ==
    \A j \in 1..Len(audit) :
        LET c == transactions[j].client_id
            t == transactions[j].detail.tx_id
        IN
        (IsTx(j, "ChargeBack", c) /\ ProcessedAt(j))
          => /\ After(j)[c].available = Before(j)[c].available
             /\ After(j)[c].held =
                  Before(j)[c].held - Before(j)[c].disputed_amounts[t]
             /\ t \notin DOMAIN After(j)[c].deposited_amounts
             /\ t \notin DOMAIN After(j)[c].disputed_amounts
             /\ \A i \in (j + 1)..Len(audit) :
                  (/\ IsTx(i, "Resolve", c) \/ IsTx(i, "ChargeBack", c)
                   /\ transactions[i].detail.tx_id = t
                   /\ ~\E k \in (j + 1)..(i - 1) :
                         /\ IsTx(k, "Dispute", c) /\ ProcessedAt(k)
                         /\ transactions[k].detail.tx_id = t)
                    => audit[i] = "DisputeNotFound"

\* ------------------------------------------------------------------------
\* C17
\* ------------------------------------------------------------------------

\* The orderings of n transactions: p[k] is the input position of the
\* transaction processed k-th.
OrderingsOfLength ==
    [n \in 0..MaxLen |->
        {p \in [1..n -> 1..n] : \A i, j \in 1..n : i # j => p[i] # p[j]}]

Orderings(n) == OrderingsOfLength[n]

\* The ordering keeps each client's transactions in their input order.
KeepsClientOrder(p) ==
    \A i, j \in DOMAIN p :
        (i < j /\ transactions[p[i]].client_id = transactions[p[j]].client_id)
          => p[i] < p[j]

Reordered(p) == [k \in DOMAIN p |-> transactions[p[k]]]

\* C17: once the input is consumed, processing the same transactions in any
\* other order that keeps each client's transactions in their relative order
\* gives the same final account map and, for every single transaction, the
\* same record.
C17_ClientsCommute ==
    (done /\ Len(audit) = Len(transactions)) =>
      \A p \in Orderings(Len(transactions)) :
        KeepsClientOrder(p) =>
          \A oc \in BOOLEAN :
            LET r == process(Init_accounts, Reordered(p), oc) IN
            /\ r.accounts = accounts
            /\ \A k \in DOMAIN p : r.audit[k] = audit[p[k]]

\* Two clients each had a deposit disputed, their transactions interleaved,
\* so that orderings other than the input order keep the clients' orders.
C17_Witness ==
    /\ done
    /\ \E p \in Orderings(Len(transactions)) :
         KeepsClientOrder(p) /\ \E k \in DOMAIN p : p[k] # k
    /\ \E c1, c2 \in Clients :
         /\ c1 # c2
         /\ \E i, j \in Steps :
              /\ i < j
              /\ IsTx(i, "Dispute", c1) /\ ProcessedAt(i)
              /\ IsTx(j, "Dispute", c2) /\ ProcessedAt(j)
         /\ accounts[c1].held > 0 /\ accounts[c2].held > 0

\* ------------------------------------------------------------------------
\* C18
\* ------------------------------------------------------------------------

\* The design of the spec's design notes: one mapping per account from
\* transaction id to (amount, state tag), an absent id being not yet seen.
Single_DefaultAccount ==
    [available |-> 0, held |-> 0, locked |-> FALSE, txs |-> EmptyMap]

Single_has(self, tx_id, state) ==
    tx_id \in DOMAIN self.txs /\ self.txs[tx_id].state = state

Single_deposit(self, tx_id, amount, oc) ==
    LET r == Account_deposit([DefaultAccount EXCEPT !.available = self.available],
                             tx_id, amount, oc)
    IN  IF r.audit # "Processed"
        THEN Outcome(self, r.audit)
        ELSE Outcome([self EXCEPT
                        !.available = r.account.available,
                        !.txs = insert(@, tx_id,
                                       [amount |-> amount, state |-> "deposited"])],
                     "Processed")

Single_withdraw(self, amount, oc) ==
    LET r == Account_withdraw([DefaultAccount EXCEPT
                                 !.available = self.available,
                                 !.locked = self.locked],
                              amount, oc)
    IN  Outcome([self EXCEPT !.available = r.account.available], r.audit)

Single_dispute(self, tx_id, oc) ==
    IF ~Single_has(self, tx_id, "deposited")
    THEN Outcome(self, "DisputedDepositNotFound")
    ELSE LET amount == self.txs[tx_id].amount
             new_held == try_change(self.held, amount, oc)
             new_available == try_change_neg(self.available, amount, oc)
         IN
         IF new_held.tag = "Panic" \/ new_available.tag = "Panic"
         THEN Outcome(self, "Panic")
         ELSE IF new_held.tag = "None" THEN Outcome(self, "MoneyOverflow")
         ELSE IF new_available.tag = "None" THEN Outcome(self, "MoneyUnderflow")
         ELSE Outcome([self EXCEPT
                         !.held = new_held.val,
                         !.available = new_available.val,
                         !.txs[tx_id].state = "disputed"],
                      "Processed")

Single_resolve(self, tx_id, oc) ==
    IF ~Single_has(self, tx_id, "disputed")
    THEN Outcome(self, "DisputeNotFound")
    ELSE LET amount == self.txs[tx_id].amount IN
         IF self.held < amount
         THEN Outcome(self, "NotEnoughMoneyToRelease")
         ELSE LET new_available == try_change(self.available, amount, oc)
                  new_held == try_change_neg(self.held, amount, oc)
              IN
              IF new_available.tag = "Panic" \/ new_held.tag = "Panic"
              THEN Outcome(self, "Panic")
              ELSE IF new_available.tag = "None" THEN Outcome(self, "MoneyOverflow")
              ELSE IF new_held.tag = "None" THEN Outcome(self, "MoneyUnderflow")
              ELSE Outcome([self EXCEPT
                              !.available = new_available.val,
                              !.held = new_held.val,
                              !.txs[tx_id].state = "deposited"],
                           "Processed")

Single_chargeback(self, tx_id, oc) ==
    IF ~Single_has(self, tx_id, "disputed")
    THEN Outcome(self, "DisputeNotFound")
    ELSE LET amount == self.txs[tx_id].amount IN
         IF self.held < amount
         THEN Outcome(self, "NotEnoughMoneyToChargeBack")
         ELSE LET new_held == try_change_neg(self.held, amount, oc) IN
              IF new_held.tag = "Panic" THEN Outcome(self, "Panic")
              ELSE IF new_held.tag = "None" THEN Outcome(self, "MoneyUnderflow")
              ELSE Outcome([self EXCEPT
                              !.held = new_held.val,
                              !.txs = remove(@, tx_id),
                              !.locked = TRUE],
                           "Processed")

Single_process_transaction(accts, tx, oc) ==
    LET account == IF tx.client_id \in DOMAIN accts
                   THEN accts[tx.client_id] ELSE Single_DefaultAccount
        r == CASE tx.detail.kind = "Deposit" ->
                    Single_deposit(account, tx.id, tx.detail.amount, oc)
               [] tx.detail.kind = "Withdrawal" ->
                    Single_withdraw(account, tx.detail.amount, oc)
               [] tx.detail.kind = "Dispute" ->
                    Single_dispute(account, tx.detail.tx_id, oc)
               [] tx.detail.kind = "Resolve" ->
                    Single_resolve(account, tx.detail.tx_id, oc)
               [] tx.detail.kind = "ChargeBack" ->
                    Single_chargeback(account, tx.detail.tx_id, oc)
    IN  [accounts |-> insert(accts, tx.client_id, r.account), audit |-> r.audit]

RECURSIVE Single_process(_, _, _)
Single_process(accts, txs, oc) ==
    IF txs = <<>>
    THEN [accounts |-> accts, audit |-> <<>>]
    ELSE LET r == Single_process_transaction(accts, Head(txs), oc)
             rest == Single_process(r.accounts, Tail(txs), oc)
         IN  [accounts |-> rest.accounts, audit |-> <<r.audit>> \o rest.audit]

\* The balances and the lock of every account of a map.
Balances(accts) ==
    [c \in DOMAIN accts |->
        [available |-> accts[c].available, held |-> accts[c].held,
         locked |-> accts[c].locked]]

\* C18: run side by side on the same transactions, the two-mapping account
\* and the single-mapping design give the same record for every transaction
\* and the same available, held and locked after every step.
C18_SingleMappingEquivalent ==
    Len(audit) = Len(transactions) =>
      \A oc \in BOOLEAN :
        /\ Single_process([c \in {} |-> Single_DefaultAccount], transactions, oc).audit
             = audit
        /\ \A i \in Steps :
             Balances(Single_process([c \in {} |-> Single_DefaultAccount],
                                     SubSeq(transactions, 1, i), oc).accounts)
               = Balances(After(i))

\* ------------------------------------------------------------------------
\* C19
\* ------------------------------------------------------------------------

\* What the i-th transaction adds to its account's available + held
\* according to the claim.
NetOfStep(i) ==
    LET tx == transactions[i]
        a == entry_or_default(Before(i), tx.client_id)
    IN  IF ~ProcessedAt(i) THEN 0
        ELSE CASE tx.detail.kind = "Deposit" -> tx.detail.amount
               [] tx.detail.kind = "Withdrawal" -> -tx.detail.amount
               [] tx.detail.kind = "ChargeBack" ->
                    -a.disputed_amounts[tx.detail.tx_id]
               [] OTHER -> 0

\* Deposits minus withdrawals minus charged-back amounts of client c among
\* the first i transactions.
RECURSIVE NetOf(_, _)
NetOf(c, i) ==
    IF i = 0 THEN 0
    ELSE NetOf(c, i - 1)
           + (IF transactions[i].client_id = c THEN NetOfStep(i) ELSE 0)

\* C19: after every step, available + held of every account equals the sum
\* of its Processed deposits minus its Processed withdrawals minus the
\* amounts its Processed chargebacks removed; dispute and resolve leave
\* available + held unchanged.
C19_MoneyConserved ==
    \A i \in Steps, c \in Clients :
        LET b == entry_or_default(Before(i), c)
            a == entry_or_default(After(i), c)
        IN
        /\ a.available + a.held = NetOf(c, i)
        /\ (IsTx(i, "Dispute", c) \/ IsTx(i, "Resolve", c))
             => a.available + a.held = b.available + b.held

\* An account went through a deposit, a withdrawal, a dispute and then a
\* resolve or a chargeback, all Processed.
C19_Witness ==
    \E c \in Clients, i, j, k, l \in Steps :
        /\ i < j /\ j < k /\ k < l
        /\ IsTx(i, "Deposit", c) /\ ProcessedAt(i)
        /\ IsTx(j, "Withdrawal", c) /\ ProcessedAt(j)
        /\ IsTx(k, "Dispute", c) /\ ProcessedAt(k)
        /\ (IsTx(l, "Resolve", c) \/ IsTx(l, "ChargeBack", c)) /\ ProcessedAt(l)
        /\ transactions[i].detail.amount > 0
        /\ transactions[j].detail.amount > 0

\* ------------------------------------------------------------------------
\* C20
\* ------------------------------------------------------------------------

\* The sum of the values of a mapping.
RECURSIVE SumOfValues(_)
SumOfValues(m) ==
    IF DOMAIN m = {} THEN 0
    ELSE LET k == CHOOSE x \in DOMAIN m : TRUE
         IN  m[k] + SumOfValues(remove(m, k))

\* C20: in every reachable state of every account, held equals the sum of
\* the values in disputed_amounts (so held is 0 when no dispute is open).
C20_HeldIsSumOfDisputed ==
    \A c \in DOMAIN accounts :
        accounts[c].held = SumOfValues(accounts[c].disputed_amounts)

\* ------------------------------------------------------------------------
\* C21
\* ------------------------------------------------------------------------

\* The outcomes of resolve and chargeback that report too little held money.
InsufficientHeld(kind) ==
    IF kind = "Resolve"
    THEN {"NotEnoughMoneyToRelease", "MoneyUnderflow"}
    ELSE {"NotEnoughMoneyToChargeBack", "MoneyUnderflow"}

\* C21: in every reachable state of every account, every amount in
\* disputed_amounts is >= 0 and at most held; and no resolve returns
\* NotEnoughMoneyToRelease or MoneyUnderflow, no chargeback returns
\* NotEnoughMoneyToChargeBack or MoneyUnderflow.
C21_InsufficientHeldUnreachable ==
    /\ \A c \in DOMAIN accounts :
          \A tx_id \in DOMAIN accounts[c].disputed_amounts :
              /\ accounts[c].disputed_amounts[tx_id] >= 0
              /\ accounts[c].held >= accounts[c].disputed_amounts[tx_id]
    /\ \A i \in 1..Len(audit), c \in Clients, kind \in {"Resolve", "ChargeBack"} :
          IsTx(i, kind, c) => audit[i] \notin InsufficientHeld(kind)

\* A resolve or a chargeback was Processed on a dispute of a positive amount,
\* passing the held >= amount check with nothing to spare.
C21_Witness ==
    \E i \in Steps, c \in Clients :
        /\ IsTx(i, "Resolve", c) \/ IsTx(i, "ChargeBack", c)
        /\ ProcessedAt(i)
        /\ LET b == entry_or_default(Before(i), c)
               amount == b.disputed_amounts[transactions[i].detail.tx_id]
           IN  /\ amount > 0
               /\ b.held = amount
               /\ entry_or_default(After(i), c).held = 0

====
